---- MODULE Spec2Model ----
(***************************************************************************)
(* Model of the NEAT Flappy Bird trainer: NEATTrainer.train and            *)
(* NEATTrainer._eval_genomes (ai/trainer.py), Bird (game/bird.py) and Pipe *)
(* (game/pipe.py).                                                         *)
(*                                                                         *)
(* Units.  Bird.y, Bird.height, Bird.vel and the displacement are floats   *)
(* that are always whole multiples of 0.5 (vel is 0 or -10.5, gravity      *)
(* 3.0): they are kept as integers counting HALF pixels, which is exact.   *)
(* Fitness is a float changed by 0.1, 5 and 1 only: it is kept as an       *)
(* integer counting TENTHS.  Everything else is in whole pixels.           *)
(***************************************************************************)
EXTENDS Integers, Sequences, FiniteSets, TLC

(***************************************************************************)
(* Bounds of the model.                                                    *)
(***************************************************************************)
MaxBatch == 2          \* genomes per generation
MaxTicks == 175        \* ticks explored in one generation
MaxCalls == 12         \* Bird.move/Bird.jump calls in SpecBird
MaxGenerations == 2    \* generations of one train() call in SpecGens
MaxSaves == 2          \* _save_genome calls on one trainer in SpecStore

(***************************************************************************)
(* Program constants.                                                      *)
(***************************************************************************)
WIN_WIDTH == 600
FLOOR_Y == 730
GAP == 200
VEL == 5
MIN_HEIGHT == 50
MAX_HEIGHT == 450
MAX_ROTATION == 25
ROT_VEL == 20
GRAVITY == 3
JUMP_VELOCITY_X2 == -21    \* JUMP_VELOCITY = -10.5 pixels, in half pixels
TERMINAL == 16
BOOST == 2
BIRD_X == 230
BIRD_Y == 350
PIPE_START_X == 700
CEILING == -50
SURVIVE_X10 == 1           \* 0.1, in tenths
PASS_BONUS == 5
PENALTY == 1
THRESHOLD_X10 == 5         \* 0.5, in tenths

\* n pixels in half pixels, n fitness points in tenths
Px(n) == 2 * n
Pts(n) == 10 * n

\* Sizes of the loaded sprites (bird 34x24 and pipe 52x320, scaled by
\* IMAGE_SCALE = 2); every sprite is taken to be fully opaque.
BirdImgW == 68
BirdImgH == 48
PipeImgW == 104
PipeImgH == 640

Abs(n) == IF n < 0 THEN -n ELSE n

\* Python's round() of a float given in half pixels: halves go to the even
\* neighbour.
PyRound(y) ==
  IF y % 2 = 0 THEN y \div 2
  ELSE LET f == (y - 1) \div 2 IN IF f % 2 = 0 THEN f ELSE f + 1

\* seq with its index-th element deleted (list.pop(index), 1-based here)
Pop(seq, index) ==
  [j \in 1..(Len(seq) - 1) |-> IF j < index THEN seq[j] ELSE seq[j + 1]]

(***************************************************************************)
(* State                                                                   *)
(***************************************************************************)
VARIABLES
  pc,               \* where the program is (see the actions)
  max_generations,  \* argument of train()
  generation,       \* self.generation
  best_genome,      \* self.best_genome (NoGenome is None)
  best_fitness,     \* self.best_fitness
  batch,            \* the genomes _eval_genomes was called with: their networks' policies
  fitness,          \* genome.fitness of the batch's genomes, in tenths
  fitness_set,      \* the batch's genomes whose fitness is not None
  networks, birds, genome_list, pipes, score, run, pipe_index,
                    \* locals of _eval_genomes
  ticks,            \* loop iterations completed in this generation
  pipes_created,    \* pipes created in this generation
  removals,         \* the _remove_bird calls of this generation that removed a triple
  gens_done,        \* _eval_genomes calls that have returned
  pop_best,         \* population.run's best genome so far
  saved,            \* contents of the files of the checkpoint directory
  save_calls,       \* the _save_genome calls made
  loaded,           \* the last load_genome call and what it gave
  genomes,          \* the genome objects created so far: their networks' policies
  outcome,          \* what train() returned or raised
  polls,            \* handle_events() calls made in this generation
  before,           \* best_fitness and best_genome when the generation started
  main_pc,          \* where main() is ("off": the trainer is used without main)
  dirs,             \* the directories that exist under the base directory
  dirs_made,        \* the directories Config() had to create
  files,            \* the image and configuration files that exist
  config,           \* Config(): "none", "ok" or the exception it raised
  engine,           \* the GameEngine: "none", "up" or "closed"
  exit_code,        \* what main() returned (NoExit: nothing yet)
  pipe_img_w,       \* width of the pipe image, PIPE_TOP.get_width()
  last_call,        \* SpecBird: the last Bird method called, with the bird before it
  calls             \* SpecBird: number of Bird method calls made

vars == <<pc, max_generations, generation, best_genome, best_fitness, batch,
          fitness, fitness_set, networks, birds, genome_list, pipes, score,
          run, pipe_index, ticks, pipes_created, removals, gens_done,
          pop_best, saved, save_calls, loaded, genomes, outcome, polls,
          before, main_pc, dirs, dirs_made, files, config, engine, exit_code,
          pipe_img_w, last_call, calls>>

trainerVars == <<generation, best_genome, best_fitness>>
evalVars == <<batch, fitness, fitness_set, networks, birds, genome_list,
              pipes, score, run, pipe_index, ticks, pipes_created, removals,
              polls, before>>
storeVars == <<saved, save_calls, loaded>>
mainVars == <<main_pc, dirs, dirs_made, files, config, engine, exit_code,
              pipe_img_w>>
birdVars == <<last_call, calls>>

(***************************************************************************)
(* Bird                                                                    *)
(***************************************************************************)
\* A bird constructed with the velocity of a jump
NewBird_Jumping(gid, x, y) ==
  [gid |-> gid, x |-> x, y |-> y, tilt |-> 0, tick_count |-> 0,
   vel |-> JUMP_VELOCITY_X2, height |-> y]

\* Bird.__init__; gid is the genome the bird was created for (not a field
\* of the program's Bird, it names the object).
NewBird(gid, x, y) ==
  [gid |-> gid, x |-> x, y |-> y, tilt |-> 0, tick_count |-> 0, vel |-> 0,
   height |-> y]

\* jump() that does not record the reference height
Jump_NoHeight(b) ==
  [b EXCEPT !.vel = JUMP_VELOCITY_X2, !.tick_count = 0]

\* Bird.jump
Jump(b) ==
  [b EXCEPT !.vel = JUMP_VELOCITY_X2, !.tick_count = 0, !.height = b.y]

\* The displacement Bird.move adds to y, for velocity v and the already
\* incremented tick count t (half pixels): 2*(v*t + 0.5*g*t^2).
RawDisplacement(v, t) == v * t + GRAVITY * t * t

\* No terminal velocity at all
TerminalClamp_None(d) == d

TerminalClamp(d) ==
  IF d >= Px(TERMINAL) THEN (d \div Abs(d)) * Px(TERMINAL) ELSE d

Displacement(v, t) ==
  LET d == TerminalClamp(RawDisplacement(v, t))
  IN IF d < 0 THEN d - Px(BOOST) ELSE d

\* Bird.move
Move(b) ==
  LET t == b.tick_count + 1
      d == Displacement(b.vel, t)
      y == b.y + d
      tilt == IF d < 0 \/ y < b.height + Px(50)
              THEN (IF b.tilt < MAX_ROTATION THEN MAX_ROTATION ELSE b.tilt)
              ELSE (IF b.tilt > -90 THEN b.tilt - ROT_VEL ELSE b.tilt)
  IN [b EXCEPT !.tick_count = t, !.y = y, !.tilt = tilt]

(***************************************************************************)
(* Pipe                                                                    *)
(***************************************************************************)
\* random.randrange(MAX_HEIGHT) in place of randrange(MIN_HEIGHT, MAX_HEIGHT)
RandRange_FromZero(a, b) == 0..(b - 1)

\* random.randrange(a, b)
RandRange(a, b) == a..(b - 1)

\* The gap heights explored: the least and the greatest height that
\* set_height can draw, and the middle of the range.
HeightChoices ==
  LET drawn == RandRange(MIN_HEIGHT, MAX_HEIGHT)
  IN {h \in drawn :
        \/ \A o \in drawn : h <= o
        \/ \A o \in drawn : o <= h
        \/ h = (MIN_HEIGHT + MAX_HEIGHT) \div 2}

\* A pipe whose top image is placed at the gap start instead of above it
NewPipe_TopAtHeight(id, x, h) ==
  [id |-> id, x |-> x, height |-> h, top |-> h,
   bottom |-> h + GAP, passed |-> FALSE]

\* Pipe.__init__ with Pipe.set_height drawing h; id names the object.
NewPipe(id, x, h) ==
  [id |-> id, x |-> x, height |-> h, top |-> h - PipeImgH,
   bottom |-> h + GAP, passed |-> FALSE]

\* Pipe.move carrying the top image along with x
MovePipe_TopShifted(p) == [p EXCEPT !.x = p.x - VEL, !.top = p.top - VEL]

\* Pipe.move
MovePipe(p) == [p EXCEPT !.x = p.x - VEL]

\* mark_passed leaving the flag as it is
MarkPassed_Never(p) == p

\* Pipe.mark_passed
MarkPassed(p) == [p EXCEPT !.passed = TRUE]

\* is_off_screen on the left edge of the pipe instead of its right edge
IsOffScreen_LeftEdge(p) == p.x < 0

\* Pipe.is_off_screen
IsOffScreen(p) == p.x + pipe_img_w < 0

\* Mask.overlap of the bird's mask with a pipe mask of pipe_img_w x PipeImgH
\* at offset (ox, oy): two opaque rectangles share a pixel.
Overlap(ox, oy) ==
  /\ ox < BirdImgW /\ ox + pipe_img_w > 0
  /\ oy < BirdImgH /\ oy + PipeImgH > 0

\* Pipe.collide
Collide(p, b) ==
  \/ Overlap(p.x - b.x, p.top - PyRound(b.y))
  \/ Overlap(p.x - b.x, p.bottom - PyRound(b.y))

(***************************************************************************)
(* Controllers.  A network is a pure function of the sensory vector        *)
(* (y, |y - height|, |y - bottom|), here in half pixels, to one output,    *)
(* here in tenths.  The genomes explored carry one of these networks.      *)
(***************************************************************************)
Policies == {"never", "always", "gap", "hover", "low", "dip"}

\* net.activate((y, dtop, dbot))[0]
Activate(policy, y, dtop, dbot) ==
  CASE policy = "never"  -> 0
    [] policy = "always" -> 10
    [] policy = "gap"    -> IF dbot < dtop THEN 10 ELSE 5
    [] policy = "hover"  -> IF y > Px(400) THEN 9 ELSE 1
    [] policy = "low"    -> IF y > Px(198) THEN 9 ELSE 1
    [] policy = "dip"    -> IF y > Px(144) /\ dbot > Px(20) THEN 9 ELSE 1

NoGenome == [gen |-> 0, id |-> 0]
NoBest == [gen |-> 0, id |-> 0, fitness |-> 0]
NegInf == [neg_inf |-> TRUE, val |-> 0]
Finite(v) == [neg_inf |-> FALSE, val |-> v]

\* f >= bf in place of f > bf
Greater_OrEqual(f, bf) == bf.neg_inf \/ f >= bf.val

\* f > bf for a float f and bf that may be float('-inf')
Greater(f, bf) == bf.neg_inf \/ f > bf.val

SaveNames == {"winner", "interrupted_best"}

\* The name itself taken as the file name
CheckpointFile_Bare(name) == name

\* The file _save_genome writes for a name: f"{name}.pickle" (trainer.py 280)
CheckpointFile(name) == name \o ".pickle"

\* The file names of the checkpoint directory that are looked at: the names
\* _save_genome is called with, and the files it writes for them
FileNames == SaveNames \cup {CheckpointFile(n) : n \in SaveNames}

\* What a file holds: nothing (it does not exist), the start of a pickle
\* only (opened for writing, then the dump failed), or a pickled genome
NoFile == [kind |-> "absent"]
Truncated == [kind |-> "truncated"]
Pickled(g, policy) == [kind |-> "pickle", genome |-> g, policy |-> policy]

\* What a call gives back when it gives back no genome
Nothing == [kind |-> "nothing"]
NoLoad == [filename |-> "", raised |-> "none", value |-> Nothing]
NoOutcome == [kind |-> "none", genome |-> NoGenome]
NoExit == 0 - 1

\* Config._create_directories and Config._validate
Dirs == {"assets", "config", "checkpoints", "logs"}
RequiredImages ==
  {"bird1.png", "bird2.png", "bird3.png", "pipe.png", "base.png", "bg.png"}
NeatConfigFile == "config-feedforward.txt"
RequiredFiles == RequiredImages \cup {NeatConfigFile}

\* The fields of the objects constructed so far: the birds bs and the pipes
\* ps, and a trainer without a generation run
ObjectFields(p, bs, ps) ==
  /\ pc = p
  /\ max_generations = 0
  /\ generation = 0
  /\ best_genome = NoGenome
  /\ best_fitness = NegInf
  /\ batch = <<>>
  /\ fitness = <<>>
  /\ fitness_set = {}
  /\ networks = <<>>
  /\ birds = bs
  /\ genome_list = <<>>
  /\ pipes = ps
  /\ score = 0
  /\ run = FALSE
  /\ pipe_index = 0
  /\ ticks = 0
  /\ pipes_created = 0
  /\ removals = <<>>
  /\ gens_done = 0
  /\ pop_best = NoBest
  /\ saved = [f \in FileNames |-> NoFile]
  /\ save_calls = <<>>
  /\ loaded = NoLoad
  /\ genomes = [g \in {NoGenome} |-> "none"]
  /\ outcome = NoOutcome
  /\ polls = 0
  /\ before = [fitness |-> NegInf, genome |-> NoGenome]
  /\ last_call = [op |-> "none", pre |-> NewBird(0, 0, 0)]
  /\ calls = 0

\* The fields of a NEATTrainer right after __init__ (p = "new", no birds), of
\* a lone Bird (p = "bird"), or of no trainer yet (p = "none")
TrainerInit(p, bs) == ObjectFields(p, bs, <<>>)

\* An object used without main(): the Config and the GameEngine it is given
\* have been constructed, with a pipe image of width w
MainOffWith(w) ==
  /\ main_pc = "off"
  /\ dirs = Dirs
  /\ dirs_made = {}
  /\ files = RequiredFiles
  /\ config = "ok"
  /\ engine = "up"
  /\ exit_code = NoExit
  /\ pipe_img_w = w

\* The same with the pipe image of the repository's assets
MainOff == MainOffWith(PipeImgW)

\* A trainer or a bird used without main()
InitWith(p, bs) == TrainerInit(p, bs) /\ MainOff

\* The widths explored for the pipe image: that of the repository's image
\* unscaled and scaled, and the greatest width below 150
PipeWidths == {PipeImgW \div 2, PipeImgW, 149}

\* A trainer whose engine loaded a pipe image of one of these widths
InitWidths ==
  \E w \in PipeWidths : TrainerInit("new", <<>>) /\ MainOffWith(w)

\* NEATTrainer.__init__
Init == InitWith("new", <<>>)

\* Config._create_directories leaving the directories as they are
CreateDirectories_None(ds) == ds

\* Config._create_directories: the directories that exist afterwards
CreateDirectories(ds) == ds \cup Dirs

\* Config._validate without the check of the NEAT configuration file
Validate_ImagesOnly(ds, fs) ==
  IF "assets" \notin ds \/ RequiredImages \ fs # {}
  THEN "FileNotFoundError"
  ELSE "none"

\* Config._validate: what it raises, given the directories and files that
\* exist
Validate(ds, fs) ==
  IF "assets" \notin ds THEN "FileNotFoundError"
  ELSE IF RequiredImages \ fs # {} THEN "FileNotFoundError"
  ELSE IF NeatConfigFile \notin fs THEN "FileNotFoundError"
  ELSE "none"

\* main() returning 0 for everything but an interrupt
ExitCode_ZeroOnFailure(kind) ==
  IF kind = "KeyboardInterrupt" THEN 130 ELSE 0

\* The exit code main() returns for what its try block raised or returned:
\* main.py 146-158
ExitCode(kind) ==
  IF kind = "returned" THEN 0
  ELSE IF kind = "KeyboardInterrupt" THEN 130
  ELSE 1

\* main() is entered: nothing is constructed, and any of the directories and
\* required files may be missing (a file needs its directory)
InitMain ==
  /\ TrainerInit("none", <<>>)
  /\ main_pc = "start"
  /\ dirs \in SUBSET Dirs
  /\ dirs_made = {}
  /\ files \in SUBSET RequiredFiles
  /\ (files \cap RequiredImages # {} => "assets" \in dirs)
  /\ (NeatConfigFile \in files => "config" \in dirs)
  /\ config = "none"
  /\ engine = "none"
  /\ exit_code = NoExit
  /\ pipe_img_w = PipeImgW

(***************************************************************************)
(* NEATTrainer._remove_bird and the loops of _eval_genomes.  Indices are   *)
(* 0-based as in the program; sequence positions are index + 1.            *)
(***************************************************************************)
\* _remove_bird popping the genome at the end of its list instead of at index
RemoveBird_PopLast(index, bs, ns, gs) ==
  IF 0 <= index /\ index < Len(bs)
  THEN [birds |-> Pop(bs, index + 1), networks |-> Pop(ns, index + 1),
        genome_list |-> Pop(gs, Len(gs))]
  ELSE [birds |-> bs, networks |-> ns, genome_list |-> gs]

\* _remove_bird(index, birds, networks, genomes): the three lists afterwards
RemoveBird(index, bs, ns, gs) ==
  IF 0 <= index /\ index < Len(bs)
  THEN [birds |-> Pop(bs, index + 1), networks |-> Pop(ns, index + 1),
        genome_list |-> Pop(gs, index + 1)]
  ELSE [birds |-> bs, networks |-> ns, genome_list |-> gs]

\* The genomes the entries of a list belong to
Gids(seq) == [j \in 1..Len(seq) |-> seq[j].gid]

\* A removal that also charges the collision penalty, whatever its cause
Removed_Penalised(st, index, cause, tick) ==
  LET r == RemoveBird(index, st.birds, st.networks, st.genome_list)
      entry == [index |-> index, cause |-> cause, tick |-> tick,
                bird |-> st.birds[index + 1].gid,
                pre |-> [birds |-> Gids(st.birds),
                         networks |-> Gids(st.networks),
                         genome_list |-> st.genome_list],
                post |-> [birds |-> Gids(r.birds),
                          networks |-> Gids(r.networks),
                          genome_list |-> r.genome_list]]
  IN [st EXCEPT !.birds = r.birds, !.networks = r.networks,
                !.genome_list = r.genome_list,
                !.fitness[st.genome_list[index + 1]] = @ - Pts(PENALTY),
                !.removals = Append(st.removals, entry)]

\* st with the triple at index removed by _remove_bird; the call is logged
Removed(st, index, cause, tick) ==
  LET r == RemoveBird(index, st.birds, st.networks, st.genome_list)
      entry == [index |-> index, cause |-> cause, tick |-> tick,
                bird |-> st.birds[index + 1].gid,
                pre |-> [birds |-> Gids(st.birds),
                         networks |-> Gids(st.networks),
                         genome_list |-> st.genome_list],
                post |-> [birds |-> Gids(r.birds),
                          networks |-> Gids(r.networks),
                          genome_list |-> r.genome_list]]
  IN [st EXCEPT !.birds = r.birds, !.networks = r.networks,
                !.genome_list = r.genome_list,
                !.removals = IF Len(r.birds) < Len(st.birds)
                             THEN Append(st.removals, entry)
                             ELSE st.removals]

\* pipe_index never advanced: the first pipe is always the target
SelectPipe_AlwaysFirst(bs, ps) == 0

\* pipe_index (trainer.py 160-163)
SelectPipe(bs, ps) ==
  IF Len(bs) > 0
  THEN (IF Len(ps) > 1 /\ bs[1].x > ps[1].x + pipe_img_w THEN 1 ELSE 0)
  ELSE 0

\* The decision with the comparison turned round: a jump on a low output
Decide_Inverted(b, policy, target) ==
  LET m == Move(b)
      output == Activate(policy, m.y, Abs(m.y - Px(target.height)),
                         Abs(m.y - Px(target.bottom)))
  IN IF output < THRESHOLD_X10 THEN Jump(m) ELSE m

\* One iteration of "for i, bird in enumerate(birds)" (trainer.py 166-179):
\* the bird after move() and the decision
Decide(b, policy, target) ==
  LET m == Move(b)
      output == Activate(policy, m.y, Abs(m.y - Px(target.height)),
                         Abs(m.y - Px(target.bottom)))
  IN IF output > THRESHOLD_X10 THEN Jump(m) ELSE m

\* The amount added to the fitness of genome number i + 1 of the batch
\* instead of the genome at index i of the list
Reward_ByIndex(fit, gs, i, amount) ==
  [fit EXCEPT ![i + 1] = fit[i + 1] + amount]

\* genome_list[i].fitness += amount
Reward(fit, gs, i, amount) ==
  [fit EXCEPT ![gs[i + 1]] = fit[gs[i + 1]] + amount]

\* The bird loop with the network read before the bird is moved: the sensory
\* vector is taken from the position the bird had at the start of the tick
RECURSIVE BirdLoop_SenseBeforeMove(_, _, _)
BirdLoop_SenseBeforeMove(i, st, target) ==
  IF i >= Len(st.birds) THEN st
  ELSE LET b == st.birds[i + 1]
           output == Activate(st.networks[i + 1].policy, b.y,
                              Abs(b.y - Px(target.height)),
                              Abs(b.y - Px(target.bottom)))
       IN BirdLoop_SenseBeforeMove(i + 1,
            [st EXCEPT
               !.birds[i + 1] = IF output > THRESHOLD_X10
                                THEN Jump(Move(b)) ELSE Move(b),
               !.fitness = Reward(st.fitness, st.genome_list, i, SURVIVE_X10)],
            target)

\* "for i, bird in enumerate(birds):" of trainer.py 166-179: bird.move(), the
\* survival reward, then the network's decision
RECURSIVE BirdLoop(_, _, _)
BirdLoop(i, st, target) ==
  IF i >= Len(st.birds) THEN st
  ELSE BirdLoop(i + 1,
         [st EXCEPT
            !.birds[i + 1] = Decide(st.birds[i + 1], st.networks[i + 1].policy,
                                    target),
            !.fitness = Reward(st.fitness, st.genome_list, i, SURVIVE_X10)],
         target)

\* The collision penalty charged twice
Penalise_Twice(fit, gs, i) ==
  [fit EXCEPT ![gs[i + 1]] = fit[gs[i + 1]] - 2 * Pts(PENALTY)]

\* genome_list[i].fitness -= 1 (trainer.py 194)
Penalise(fit, gs, i) == Reward(fit, gs, i, 0 - Pts(PENALTY))

\* "for i, bird in enumerate(birds): if pipe.collide(bird): ..." (trainer.py
\* 192-195).  The list iterator yields birds[i] while i < len(birds), and
\* len(birds) shrinks with every removal made inside the loop.
RECURSIVE CollideLoop(_, _, _, _)
CollideLoop(pipe, i, st, tick) ==
  IF i >= Len(st.birds) THEN st
  ELSE IF Collide(pipe, st.birds[i + 1])
       THEN CollideLoop(pipe, i + 1,
              Removed([st EXCEPT !.fitness = Penalise(st.fitness,
                                                      st.genome_list, i)],
                      i, "pipe", tick),
              tick)
       ELSE CollideLoop(pipe, i + 1, st, tick)

\* The pipe loop with the pass test made on passed pipes as well: a pipe
\* behind the birds asks for a new pipe in every tick
RECURSIVE PipeLoop_PassedAgain(_, _, _)
PipeLoop_PassedAgain(p, st, tick) ==
  IF p >= Len(st.pipes) THEN st
  ELSE
    LET moved == MovePipe(st.pipes[p + 1])
        s1 == CollideLoop(moved, 0, [st EXCEPT !.pipes[p + 1] = moved], tick)
        s2 == IF IsOffScreen(moved)
              THEN [s1 EXCEPT !.pipes_to_remove = Append(@, moved.id)]
              ELSE s1
        s3 == IF Len(s2.birds) > 0 /\ moved.x < s2.birds[1].x
              THEN [s2 EXCEPT !.pipes[p + 1] = MarkPassed(moved),
                              !.add_pipe = TRUE]
              ELSE s2
    IN PipeLoop_PassedAgain(p + 1, s3, tick)

\* "for pipe in pipes:" (trainer.py 188-204)
RECURSIVE PipeLoop(_, _, _)
PipeLoop(p, st, tick) ==
  IF p >= Len(st.pipes) THEN st
  ELSE
    LET moved == MovePipe(st.pipes[p + 1])
        s1 == CollideLoop(moved, 0, [st EXCEPT !.pipes[p + 1] = moved], tick)
        s2 == IF IsOffScreen(moved)
              THEN [s1 EXCEPT !.pipes_to_remove = Append(@, moved.id)]
              ELSE s1
        s3 == IF ~moved.passed /\ Len(s2.birds) > 0
                 /\ moved.x < s2.birds[1].x
              THEN [s2 EXCEPT !.pipes[p + 1] = MarkPassed(moved),
                              !.add_pipe = TRUE]
              ELSE s2
    IN PipeLoop(p + 1, s3, tick)

\* The pass bonus given to every genome of the batch, removed or not
BonusLoop_WholeBatch(i, fit, gs) ==
  [g \in DOMAIN fit |-> fit[g] + Pts(PASS_BONUS)]

\* "for genome in genome_list: genome.fitness += 5" (trainer.py 212-213)
RECURSIVE BonusLoop(_, _, _)
BonusLoop(i, fit, gs) ==
  IF i >= Len(gs) THEN fit
  ELSE BonusLoop(i + 1, Reward(fit, gs, i, Pts(PASS_BONUS)), gs)

\* pipes.clear() in place of pipes.remove(pipe)
ListRemove_All(ps, id) == <<>>

\* pipes.remove(pipe): the first element equal to pipe is deleted
RECURSIVE ListRemove(_, _)
ListRemove(ps, id) ==
  IF ps = <<>> THEN ps
  ELSE IF ps[1].id = id THEN Tail(ps)
       ELSE <<ps[1]>> \o ListRemove(Tail(ps), id)

\* "for pipe in pipes_to_remove: pipes.remove(pipe)" (trainer.py 218-219)
RECURSIVE RemovePipes(_, _)
RemovePipes(ps, ids) ==
  IF ids = <<>> THEN ps
  ELSE RemovePipes(ListRemove(ps, ids[1]), Tail(ids))

\* The floor test on the bird's upper edge instead of its lower edge
OutOfBounds_UpperEdge(b) == b.y >= Px(FLOOR_Y) \/ b.y < Px(CEILING)

\* trainer.py 224
OutOfBounds(b) == b.y + Px(BirdImgH) >= Px(FLOOR_Y) \/ b.y < Px(CEILING)

\* The boundary check made for the last bird of the list only
BoundLoop_LastOnly(i, st, tick) ==
  IF i < 0 THEN st
  ELSE IF OutOfBounds(st.birds[i + 1]) THEN Removed(st, i, "bound", tick)
       ELSE st

\* "for i in range(len(birds) - 1, -1, -1):" (trainer.py 222-225)
RECURSIVE BoundLoop(_, _, _)
BoundLoop(i, st, tick) ==
  IF i < 0 THEN st
  ELSE IF OutOfBounds(st.birds[i + 1])
       THEN BoundLoop(i - 1, Removed(st, i, "bound", tick), tick)
       ELSE BoundLoop(i - 1, st, tick)

\* The tracker taking the last genome of the list whatever its fitness
TrackLoop_LastGenome(i, gs, fit, gen, best) ==
  IF Len(gs) = 0 THEN best
  ELSE [fitness |-> Finite(fit[gs[Len(gs)]]),
        genome |-> [gen |-> gen, id |-> gs[Len(gs)]]]

\* "for genome in genome_list: if genome.fitness > self.best_fitness: ..."
\* (trainer.py 238-241)
RECURSIVE TrackLoop(_, _, _, _, _)
TrackLoop(i, gs, fit, gen, best) ==
  IF i >= Len(gs) THEN best
  ELSE IF Greater(fit[gs[i + 1]], best.fitness)
       THEN TrackLoop(i + 1, gs, fit, gen,
                      [fitness |-> Finite(fit[gs[i + 1]]),
                       genome |-> [gen |-> gen, id |-> gs[i + 1]]])
       ELSE TrackLoop(i + 1, gs, fit, gen, best)

\* The locals of _eval_genomes the loops work on
Locals ==
  [birds |-> birds, networks |-> networks, genome_list |-> genome_list,
   fitness |-> fitness, pipes |-> pipes, add_pipe |-> FALSE,
   pipes_to_remove |-> <<>>, removals |-> removals]

(***************************************************************************)
(* Actions.  pc is                                                         *)
(*   "new"         the trainer is constructed, train() not yet called      *)
(*   "run"         inside population.run, outside the fitness function     *)
(*   "loop"        at the head of the while loop of _eval_genomes          *)
(*   "pipes"       in a tick, the birds have moved (before trainer.py 182) *)
(*   "bounds"      in a tick, the pipes are processed (before 221)         *)
(*   "track"       after the while loop (before 237)                       *)
(*   "returned"    train() returned the winner                             *)
(*   "interrupted" train() re-raised KeyboardInterrupt                     *)
(*   "failed"      train() raised another exception                        *)
(*   "none"        SpecMain: no trainer is constructed yet                 *)
(*   "bird"        SpecBird: a lone Bird object                            *)
(***************************************************************************)
\* The steps of _save_genome that can fail: opening the file for writing,
\* and pickle.dump into the opened file
SaveResults == {"ok", "open", "dump"}

\* The checkpoint directory after _save_genome wrote content to file, res
\* saying which step failed: open(filepath, 'wb') empties the file before
\* anything is dumped
Written(disk, file, content, res) ==
  IF res = "ok" THEN [disk EXCEPT ![file] = content]
  ELSE IF res = "dump" THEN [disk EXCEPT ![file] = Truncated]
  ELSE disk

\* A failed write raising out of _save_genome
SaveRaises_Failure(res) == res # "ok"

\* Whether _save_genome raises to its caller: "except Exception" logs and
\* swallows whatever the try block raised (trainer.py 285-286)
SaveRaises(res) == FALSE

\* _save_genome(genome, name)
SaveGenome(genome, name, res) ==
  /\ save_calls' = Append(save_calls, [name |-> name, genome |-> genome,
                                       ok |-> (res = "ok")])
  /\ saved' = Written(saved, CheckpointFile(name),
                      Pickled(genome, genomes[genome]), res)
  /\ loaded' = loaded

\* load_genome(filename): what it raises and what it returns
LoadResult(disk, filename) ==
  IF disk[filename] = NoFile
  THEN [filename |-> filename, raised |-> "FileNotFoundError",
        value |-> Nothing]
  ELSE IF disk[filename].kind # "pickle"
       THEN [filename |-> filename, raised |-> "Exception",
             value |-> Nothing]
       ELSE [filename |-> filename, raised |-> "none",
             value |-> disk[filename]]

\* train(neat_config_path, max_generations) up to the call of population.run
Train(G) ==
  /\ pc = "new"
  /\ max_generations' \in G
  /\ pc' = "run"
  /\ UNCHANGED <<trainerVars, evalVars, gens_done, pop_best, storeVars,
                 genomes, outcome, birdVars, mainVars>>

\* _eval_genomes with the stop kept from the generation before: the loop
\* flag starts as the last tick loop left it
EvalInit_QuitLatched(batches, heights) ==
  /\ pc = "run"
  /\ gens_done < max_generations
  /\ \E b \in batches, h \in heights :
       /\ batch' = b
       /\ generation' = generation + 1
       /\ fitness' = [g \in 1..Len(b) |-> 0]
       /\ fitness_set' = 1..Len(b)
       /\ networks' = [g \in 1..Len(b) |-> [gid |-> g, policy |-> b[g]]]
       /\ birds' = [g \in 1..Len(b) |-> NewBird(g, BIRD_X, Px(BIRD_Y))]
       /\ genome_list' = [g \in 1..Len(b) |-> g]
       /\ pipes' = <<NewPipe(1, PIPE_START_X, h)>>
       /\ genomes' =
            [k \in DOMAIN genomes \cup
                     {[gen |-> generation + 1, id |-> g] : g \in 1..Len(b)} |->
               IF k \in DOMAIN genomes THEN genomes[k] ELSE b[k.id]]
  /\ polls' = 0
  /\ before' = [fitness |-> best_fitness, genome |-> best_genome]
  /\ pipes_created' = 1
  /\ score' = 0
  /\ run' = (gens_done = 0 \/ run)
  /\ pipe_index' = 0
  /\ ticks' = 0
  /\ removals' = <<>>
  /\ pc' = "loop"
  /\ UNCHANGED <<max_generations, best_genome, best_fitness, gens_done,
                 pop_best, storeVars, outcome, birdVars, mainVars>>

\* population.run calls _eval_genomes(genomes, config): trainer.py 127-150
EvalInit(batches, heights) ==
  /\ pc = "run"
  /\ gens_done < max_generations
  /\ \E b \in batches, h \in heights :
       /\ batch' = b
       /\ generation' = generation + 1
       /\ fitness' = [g \in 1..Len(b) |-> 0]
       /\ fitness_set' = 1..Len(b)
       /\ networks' = [g \in 1..Len(b) |-> [gid |-> g, policy |-> b[g]]]
       /\ birds' = [g \in 1..Len(b) |-> NewBird(g, BIRD_X, Px(BIRD_Y))]
       /\ genome_list' = [g \in 1..Len(b) |-> g]
       /\ pipes' = <<NewPipe(1, PIPE_START_X, h)>>
       /\ genomes' =
            [k \in DOMAIN genomes \cup
                     {[gen |-> generation + 1, id |-> g] : g \in 1..Len(b)} |->
               IF k \in DOMAIN genomes THEN genomes[k] ELSE b[k.id]]
  /\ polls' = 0
  /\ before' = [fitness |-> best_fitness, genome |-> best_genome]
  /\ pipes_created' = 1
  /\ score' = 0
  /\ run' = TRUE
  /\ pipe_index' = 0
  /\ ticks' = 0
  /\ removals' = <<>>
  /\ pc' = "loop"
  /\ UNCHANGED <<max_generations, best_genome, best_fitness, gens_done,
                 pop_best, storeVars, outcome, birdVars, mainVars>>

\* The tick in which the quit signal is seen only after the birds have moved
LoopQuit_AfterBirds ==
  /\ pc = "loop"
  /\ run /\ Len(birds) > 0
  /\ LET st == BirdLoop(0, Locals, pipes[SelectPipe(birds, pipes) + 1])
     IN /\ birds' = st.birds
        /\ fitness' = st.fitness
  /\ polls' = polls + 1
  /\ run' = FALSE
  /\ pc' = "track"
  /\ UNCHANGED <<max_generations, trainerVars, batch, fitness_set, networks,
                 genome_list, pipes, score, pipe_index, ticks, pipes_created,
                 removals, before, gens_done, pop_best, storeVars, genomes,
                 outcome, birdVars, mainVars>>

\* The while condition holds and handle_events() returns False:
\* trainer.py 151-157
LoopQuit ==
  /\ pc = "loop"
  /\ run /\ Len(birds) > 0
  /\ polls' = polls + 1
  /\ run' = FALSE
  /\ pc' = "track"
  /\ UNCHANGED <<max_generations, trainerVars, batch, fitness, fitness_set,
                 networks, birds, genome_list, pipes, score, pipe_index,
                 ticks, pipes_created, removals, before, gens_done, pop_best,
                 storeVars, genomes, outcome, birdVars, mainVars>>

\* The while condition fails: trainer.py 151
LoopExit ==
  /\ pc = "loop"
  /\ ~(run /\ Len(birds) > 0)
  /\ pc' = "track"
  /\ UNCHANGED <<max_generations, trainerVars, evalVars, gens_done, pop_best,
                 storeVars, genomes, outcome, birdVars, mainVars>>

\* handle_events() returns True; the target pipe is chosen and the birds
\* move and decide: trainer.py 151-182
TickBirds ==
  /\ pc = "loop"
  /\ run /\ Len(birds) > 0
  /\ ticks < MaxTicks
  /\ LET pi == SelectPipe(birds, pipes)
         st == BirdLoop(0, Locals, pipes[pi + 1])
     IN /\ pipe_index' = pi
        /\ birds' = st.birds
        /\ fitness' = st.fitness
  /\ polls' = polls + 1
  /\ pc' = "pipes"
  /\ UNCHANGED <<max_generations, trainerVars, batch, fitness_set, networks,
                 genome_list, pipes, score, run, ticks, pipes_created,
                 removals, before, gens_done, pop_best, storeVars, genomes,
                 outcome, birdVars, mainVars>>

\* The pipes move, collide, are passed, spawned and recycled:
\* trainer.py 184-219
TickPipes(heights) ==
  /\ pc = "pipes"
  /\ LET st == PipeLoop(0, Locals, ticks + 1)
     IN /\ birds' = st.birds
        /\ networks' = st.networks
        /\ genome_list' = st.genome_list
        /\ removals' = st.removals
        /\ IF st.add_pipe
           THEN /\ score' = score + 1
                /\ fitness' = BonusLoop(0, st.fitness, st.genome_list)
                /\ pipes_created' = pipes_created + 1
                /\ \E h \in heights :
                     pipes' = RemovePipes(
                                Append(st.pipes,
                                       NewPipe(pipes_created + 1, WIN_WIDTH, h)),
                                st.pipes_to_remove)
           ELSE /\ fitness' = st.fitness
                /\ pipes' = RemovePipes(st.pipes, st.pipes_to_remove)
                /\ UNCHANGED <<score, pipes_created>>
  /\ pc' = "bounds"
  /\ UNCHANGED <<max_generations, trainerVars, batch, fitness_set, run,
                 pipe_index, ticks, polls, before, gens_done, pop_best,
                 storeVars, genomes, outcome, birdVars, mainVars>>

\* Floor and ceiling removals, then draw_window: trainer.py 221-235
TickBounds ==
  /\ pc = "bounds"
  /\ LET st == BoundLoop(Len(birds) - 1, Locals, ticks + 1)
     IN /\ birds' = st.birds
        /\ networks' = st.networks
        /\ genome_list' = st.genome_list
        /\ removals' = st.removals
        /\ fitness' = st.fitness
  /\ ticks' = ticks + 1
  /\ pc' = "loop"
  /\ UNCHANGED <<max_generations, trainerVars, batch, fitness_set,
                 pipes, score, run, pipe_index, pipes_created, polls, before,
                 gens_done, pop_best, storeVars, genomes, outcome, birdVars,
                 mainVars>>

\* population.run's own record of the best genome, updated from the
\* fitnesses the fitness function left behind
PopulationBest(gen, n, fit, cur) ==
  LET top == CHOOSE g \in 1..n : \A o \in 1..n : fit[o] <= fit[g]
  IN IF cur = NoBest \/ fit[top] > cur.fitness
     THEN [gen |-> gen, id |-> top, fitness |-> fit[top]]
     ELSE cur

\* The best genome is tracked and _eval_genomes returns: trainer.py 237-244
TrackBest ==
  /\ pc = "track"
  /\ LET best == TrackLoop(0, genome_list, fitness, generation,
                           [fitness |-> best_fitness, genome |-> best_genome])
     IN /\ best_fitness' = best.fitness
        /\ best_genome' = best.genome
  /\ gens_done' = gens_done + 1
  /\ pop_best' = IF Len(batch) = 0 THEN pop_best
                 ELSE PopulationBest(generation, Len(batch), fitness, pop_best)
  /\ pc' = "run"
  /\ UNCHANGED <<max_generations, generation, evalVars, storeVars, genomes,
                 outcome, birdVars, mainVars>>

\* population.run returns the winner, which is saved and returned:
\* trainer.py 93-101
RunReturns ==
  /\ pc = "run"
  /\ gens_done >= max_generations
  /\ LET winner == [gen |-> pop_best.gen, id |-> pop_best.id]
     IN \E res \in SaveResults :
          /\ SaveGenome(winner, "winner", res)
          /\ IF SaveRaises(res)
             THEN /\ pc' = "failed"
                  /\ outcome' = [kind |-> "Exception", genome |-> NoGenome]
             ELSE /\ pc' = "returned"
                  /\ outcome' = [kind |-> "returned", genome |-> winner]
  /\ UNCHANGED <<max_generations, trainerVars, evalVars, gens_done, pop_best,
                 genomes, birdVars, mainVars>>

\* KeyboardInterrupt is raised inside population.run: trainer.py 103-107
Interrupt ==
  /\ pc \in {"run", "loop", "pipes", "bounds", "track"}
  /\ IF best_genome # NoGenome
     THEN \E res \in SaveResults :
            /\ SaveGenome(best_genome, "interrupted_best", res)
            /\ IF SaveRaises(res)
               THEN /\ pc' = "failed"
                    /\ outcome' = [kind |-> "Exception", genome |-> NoGenome]
               ELSE /\ pc' = "interrupted"
                    /\ outcome' = [kind |-> "KeyboardInterrupt",
                                   genome |-> NoGenome]
     ELSE /\ pc' = "interrupted"
          /\ outcome' = [kind |-> "KeyboardInterrupt", genome |-> NoGenome]
          /\ UNCHANGED storeVars
  /\ UNCHANGED <<max_generations, trainerVars, evalVars, gens_done, pop_best,
                 genomes, birdVars, mainVars>>

\* Any other exception is raised inside population.run: trainer.py 109-111
Fail ==
  /\ pc \in {"run", "loop", "pipes", "bounds", "track"}
  /\ pc' = "failed"
  /\ outcome' = [kind |-> "Exception", genome |-> NoGenome]
  /\ UNCHANGED <<max_generations, trainerVars, evalVars, gens_done, pop_best,
                 storeVars, genomes, birdVars, mainVars>>

\* load_genome(filename), called on a trainer that is not training
LoadGenome(names) ==
  /\ pc \in {"new", "returned"}
  /\ \E f \in names : loaded' = LoadResult(saved, f)
  /\ UNCHANGED <<pc, max_generations, trainerVars, evalVars, gens_done,
                 pop_best, saved, save_calls, genomes, outcome, birdVars,
                 mainVars>>

\* _save_genome(genome, name) called again after train() has returned
SaveCall ==
  /\ pc = "returned"
  /\ Len(save_calls) < MaxSaves
  /\ \E g \in DOMAIN genomes \ {NoGenome}, n \in SaveNames,
        res \in SaveResults :
       /\ SaveGenome(g, n, res)
       /\ pc' = IF SaveRaises(res) THEN "failed" ELSE pc
  /\ UNCHANGED <<max_generations, trainerVars, evalVars, gens_done, pop_best,
                 genomes, outcome, birdVars, mainVars>>

(***************************************************************************)
(* main().  main_pc is                                                     *)
(*   "start"    before Config()                                            *)
(*   "config"   the Config is constructed (before main.py 130)             *)
(*   "engine"   the GameEngine is entered (before main.py 132)             *)
(*   "training" the trainer is constructed and train() is called           *)
(*   "exit"     main() has returned                                        *)
(***************************************************************************)
\* config = Config(), and the except clauses when it raises:
\* main.py 107-109, 152-158
MainConfig ==
  /\ main_pc = "start"
  /\ LET made == CreateDirectories(dirs)
         raised == Validate(made, files)
     IN /\ dirs' = made
        /\ dirs_made' = made \ dirs
        /\ IF raised = "none"
           THEN /\ config' = "ok"
                /\ main_pc' = "config"
                /\ exit_code' = exit_code
           ELSE /\ config' = raised
                /\ main_pc' = "exit"
                /\ exit_code' = ExitCode(raised)
  /\ UNCHANGED <<pc, max_generations, trainerVars, evalVars, gens_done,
                 pop_best, storeVars, genomes, outcome, birdVars, files,
                 engine, pipe_img_w>>

\* with GameEngine(config) as game: main.py 130
MainEngine ==
  /\ main_pc = "config"
  /\ engine' = "up"
  /\ main_pc' = "engine"
  /\ UNCHANGED <<pc, max_generations, trainerVars, evalVars, gens_done,
                 pop_best, storeVars, genomes, outcome, birdVars, dirs,
                 dirs_made, files, config, exit_code, pipe_img_w>>

\* trainer = NEATTrainer(config, game): main.py 132
MainTrainer ==
  /\ main_pc = "engine"
  /\ pc = "none"
  /\ pc' = "new"
  /\ main_pc' = "training"
  /\ UNCHANGED <<max_generations, trainerVars, evalVars, gens_done,
                 pop_best, storeVars, genomes, outcome, birdVars, dirs,
                 dirs_made, files, config, engine, exit_code, pipe_img_w>>

\* train() returns or raises, the engine is cleaned up and main() returns:
\* main.py 135-158
MainExit ==
  /\ main_pc = "training"
  /\ pc \in {"returned", "interrupted", "failed"}
  /\ engine' = "closed"
  /\ exit_code' = ExitCode(outcome.kind)
  /\ main_pc' = "exit"
  /\ UNCHANGED <<pc, max_generations, trainerVars, evalVars, gens_done,
                 pop_best, storeVars, genomes, outcome, birdVars, dirs,
                 dirs_made, files, config, pipe_img_w>>

(***************************************************************************)
(* A lone Bird driven by arbitrary move() and jump() calls.                *)
(***************************************************************************)
\* Bird(x, y, images)
InitBird ==
  \E y \in {Px(BIRD_Y), 0, 1} :
    InitWith("bird", <<NewBird(1, BIRD_X, y)>>)

\* bird.move()
BirdMove ==
  /\ pc = "bird"
  /\ calls < MaxCalls
  /\ birds' = <<Move(birds[1])>>
  /\ last_call' = [op |-> "move", pre |-> birds[1]]
  /\ calls' = calls + 1
  /\ UNCHANGED <<pc, max_generations, trainerVars, batch, fitness,
                 fitness_set, networks, genome_list, pipes, score, run,
                 pipe_index, ticks, pipes_created, removals, gens_done,
                 pop_best, storeVars, genomes, outcome, polls, before,
                 mainVars>>

\* bird.jump()
BirdJump ==
  /\ pc = "bird"
  /\ calls < MaxCalls
  /\ birds' = <<Jump(birds[1])>>
  /\ last_call' = [op |-> "jump", pre |-> birds[1]]
  /\ calls' = calls + 1
  /\ UNCHANGED <<pc, max_generations, trainerVars, batch, fitness,
                 fitness_set, networks, genome_list, pipes, score, run,
                 pipe_index, ticks, pipes_created, removals, gens_done,
                 pop_best, storeVars, genomes, outcome, polls, before,
                 mainVars>>

(***************************************************************************)
(* Specifications                                                          *)
(***************************************************************************)
\* The batches of genomes a generation is evaluated with
Batches ==
  UNION {[1..n -> Policies] : n \in 1..MaxBatch}

\* train() for one generation, over every batch and gap height explored
Next ==
  \/ Train({1})
  \/ EvalInit(Batches, HeightChoices)
  \/ LoopQuit
  \/ LoopExit
  \/ TickBirds
  \/ TickPipes(HeightChoices)
  \/ TickBounds
  \/ TrackBest
  \/ RunReturns
  \/ Interrupt

Spec == Init /\ [][Next]_vars

(***************************************************************************)
(* A lone Pipe driven by arbitrary move() and mark_passed() calls.         *)
(***************************************************************************)
\* Pipe(x, pipe_img): at PIPE_START_X as the first pipe of a generation
\* (trainer.py 146) or at WIN_WIDTH as add_pipe makes it (trainer.py 215),
\* with any height set_height can draw
InitPipe ==
  \E x \in {PIPE_START_X, WIN_WIDTH} :
    \E h \in RandRange(MIN_HEIGHT, MAX_HEIGHT) :
      ObjectFields("pipe", <<>>, <<NewPipe(1, x, h)>>) /\ MainOff

\* pipe.move()
PipeMove ==
  /\ pc = "pipe"
  /\ calls < MaxCalls
  /\ pipes' = <<MovePipe(pipes[1])>>
  /\ last_call' = [op |-> "move", pre |-> pipes[1]]
  /\ calls' = calls + 1
  /\ UNCHANGED <<pc, max_generations, trainerVars, batch, fitness,
                 fitness_set, networks, birds, genome_list, score, run,
                 pipe_index, ticks, pipes_created, removals, gens_done,
                 pop_best, storeVars, genomes, outcome, polls, before,
                 mainVars>>

\* pipe.mark_passed()
PipeMarkPassed ==
  /\ pc = "pipe"
  /\ calls < MaxCalls
  /\ pipes' = <<MarkPassed(pipes[1])>>
  /\ last_call' = [op |-> "mark_passed", pre |-> pipes[1]]
  /\ calls' = calls + 1
  /\ UNCHANGED <<pc, max_generations, trainerVars, batch, fitness,
                 fitness_set, networks, birds, genome_list, score, run,
                 pipe_index, ticks, pipes_created, removals, gens_done,
                 pop_best, storeVars, genomes, outcome, polls, before,
                 mainVars>>

\* A lone bird
NextBird == BirdMove \/ BirdJump

SpecBird == InitBird /\ [][NextBird]_vars

\* A lone pipe
NextPipe == PipeMove \/ PipeMarkPassed

SpecPipe == InitPipe /\ [][NextPipe]_vars

\* The batches and gap heights of the runs of several generations: a lone
\* bird that never jumps, or a bird that always jumps before one that never
\* does
NarrowBatches == {<<"never">>, <<"always", "never">>}
NarrowHeights == {MIN_HEIGHT}

\* train() for up to MaxGenerations generations
NextGens ==
  \/ Train(1..MaxGenerations)
  \/ EvalInit(NarrowBatches, NarrowHeights)
  \/ LoopQuit
  \/ LoopExit
  \/ TickBirds
  \/ TickPipes(NarrowHeights)
  \/ TickBounds
  \/ TrackBest
  \/ RunReturns
  \/ Interrupt

SpecGens == Init /\ [][NextGens]_vars

\* train() for one generation, with load_genome and further _save_genome
\* calls around it
NextStore ==
  \/ Train({1})
  \/ EvalInit(NarrowBatches, NarrowHeights)
  \/ LoopQuit
  \/ LoopExit
  \/ TickBirds
  \/ TickPipes(NarrowHeights)
  \/ TickBounds
  \/ TrackBest
  \/ RunReturns
  \/ Interrupt
  \/ LoadGenome(FileNames)
  \/ SaveCall

SpecStore == Init /\ [][NextStore]_vars

\* main() from its first statement, training for one generation
NextMain ==
  \/ MainConfig
  \/ MainEngine
  \/ MainTrainer
  \/ Train({1})
  \/ EvalInit(NarrowBatches, NarrowHeights)
  \/ LoopQuit
  \/ LoopExit
  \/ TickBirds
  \/ TickPipes(NarrowHeights)
  \/ TickBounds
  \/ TrackBest
  \/ RunReturns
  \/ Interrupt
  \/ Fail
  \/ MainExit

SpecMain == InitMain /\ [][NextMain]_vars

\* The batches of the runs with other pipe images: a bird that dies on the
\* floor, and a bird that keeps to the gaps
WidthBatches == {<<"never">>, <<"gap">>}

\* train() for one generation with each of the pipe widths
NextWidths ==
  \/ Train({1})
  \/ EvalInit(WidthBatches, NarrowHeights)
  \/ LoopQuit
  \/ LoopExit
  \/ TickBirds
  \/ TickPipes(NarrowHeights)
  \/ TickBounds
  \/ TrackBest
  \/ RunReturns
  \/ Interrupt

SpecWidths == InitWidths /\ [][NextWidths]_vars

(***************************************************************************)
(* Properties                                                              *)
(***************************************************************************)
Range(seq) == {seq[j] : j \in 1..Len(seq)}

\* C1: throughout _eval_genomes birds, networks and genome_list have equal
\* length and at every index hold the bird, network and genome created from
\* the same input genome; every removal deleted exactly the triple at its
\* index, every later triple moving down by one index in all three lists.
C1_Correspondence ==
  /\ Len(birds) = Len(networks)
  /\ Len(networks) = Len(genome_list)
  /\ \A j \in 1..Len(birds) :
       birds[j].gid = genome_list[j] /\ networks[j].gid = genome_list[j]
  /\ \A k \in 1..Len(removals) :
       LET r == removals[k]
       IN /\ r.post.birds = Pop(r.pre.birds, r.index + 1)
          /\ r.post.networks = Pop(r.pre.networks, r.index + 1)
          /\ r.post.genome_list = Pop(r.pre.genome_list, r.index + 1)
          /\ r.pre.birds = r.pre.genome_list
          /\ r.pre.networks = r.pre.genome_list

\* C1 witness: a boundary removal at index 0 moved the second triple down,
\* and that triple was later removed by a pipe collision.
C1_Witness ==
  /\ Len(removals) = 2
  /\ removals[1].cause = "bound" /\ removals[1].index = 0
  /\ Len(removals[1].pre.birds) = 2
  /\ removals[2].cause = "pipe" /\ removals[2].bird = 2

\* C2: when _eval_genomes has returned, after elimination of every bird or
\* after a quit, every genome of the batch has a fitness value; the value was
\* set to 0 at INIT and every later change of it is +0.1, +5 or -1.
C2_FitnessSet ==
  /\ [](pc = "run" /\ gens_done > 0 =>
          \A g \in DOMAIN batch : g \in fitness_set /\ g \in DOMAIN fitness)
  /\ [][IF pc = "run" /\ pc' = "loop"
        THEN \A g \in DOMAIN batch' : fitness'[g] = 0
        ELSE \A g \in DOMAIN batch :
               fitness'[g] - fitness[g] \in
                 {0, SURVIVE_X10, Pts(PASS_BONUS), 0 - Pts(PENALTY)}]_vars

\* C2 witness: the generation returned after a quit with one genome still
\* live and the other eliminated by a pipe.
C2_Witness ==
  /\ pc = "run" /\ gens_done = 1 /\ ~run
  /\ Len(batch) = 2 /\ Len(genome_list) = 1
  /\ Len(removals) = 1 /\ removals[1].cause = "pipe"
  /\ fitness[removals[1].bird] = removals[1].tick * SURVIVE_X10 - Pts(PENALTY)

\* C3 (as claimed): once the pipe-processing step of a tick has finished, no
\* bird remaining in the list collides with any pipe at that tick's
\* positions.
C3_NoColliderLeft ==
  pc = "bounds" =>
    \A j \in 1..Len(birds), p \in 1..Len(pipes) : ~Collide(pipes[p], birds[j])

\* A pipe not yet passed in ps is passed in qs
PassEvent(ps, qs) ==
  \E j \in 1..Len(ps), k \in 1..Len(qs) :
    ps[j].id = qs[k].id /\ ~ps[j].passed /\ qs[k].passed

\* C4: in a tick in which a pipe becomes passed the score increases by
\* exactly 1 and every genome still in genome_list after the tick's pipe
\* collisions receives +5 once, genomes already removed receiving nothing; in
\* a tick without a pass event the score is unchanged and no genome receives
\* the bonus.
C4_PassBonus ==
  [][pc = "pipes" /\ pc' = "bounds" =>
       IF PassEvent(pipes, pipes')
       THEN /\ score' = score + 1
            /\ \A g \in DOMAIN batch :
                 IF g \in Range(genome_list')
                 THEN fitness'[g] = fitness[g] + Pts(PASS_BONUS)
                 ELSE fitness'[g] \in {fitness[g], fitness[g] - Pts(PENALTY)}
       ELSE /\ score' = score
            /\ \A g \in DOMAIN batch :
                 fitness'[g] \in {fitness[g], fitness[g] - Pts(PENALTY)}]_vars

\* C4 witness: the tick of the first pass event is over; one genome of two
\* is still listed and holds the bonus, the other was removed before.
C4_Witness ==
  /\ pc = "bounds" /\ score = 1 /\ pipes_created = 2
  /\ pipes[Len(pipes)].x = WIN_WIDTH
  /\ Len(batch) = 2 /\ Len(genome_list) = 1
  /\ fitness[genome_list[1]] = (ticks + 1) * SURVIVE_X10 + Pts(PASS_BONUS)
  /\ \E g \in DOMAIN batch :
       g \notin Range(genome_list) /\ fitness[g] < Pts(PASS_BONUS)

\* C5 (as claimed): after _eval_genomes has returned for a generation that
\* ended with every agent eliminated, best_fitness is at least the final
\* fitness of every genome of that generation, and best_genome is a genome of
\* this generation with the maximal final fitness when one exceeded the
\* previous best (which is -inf before the first generation).
C5_BestTracked ==
  pc = "run" /\ gens_done > 0 /\ run =>
    /\ \A g \in DOMAIN batch :
         ~best_fitness.neg_inf /\ best_fitness.val >= fitness[g]
    /\ best_genome.gen = generation
    /\ \A g \in DOMAIN batch : fitness[best_genome.id] >= fitness[g]

\* C6 (as claimed): when KeyboardInterrupt is raised inside population.run
\* after at least one generation has been evaluated, _save_genome has been
\* called with the best genome under the name interrupted_best by the time
\* train() re-raises.
C6_InterruptSaves ==
  pc = "interrupted" /\ gens_done > 0 =>
    \E k \in 1..Len(save_calls) :
      /\ save_calls[k].name = "interrupted_best"
      /\ save_calls[k].genome # NoGenome

\* What the last move() added to y, in half pixels
LastDisplacement == birds[1].y - last_call.pre.y

ClaimedDisplacement(v, t) ==
  LET raw == RawDisplacement(v, t)
      d == IF raw > Px(TERMINAL) THEN Px(TERMINAL)
           ELSE IF raw < 0 - Px(TERMINAL) THEN 0 - Px(TERMINAL) ELSE raw
  IN IF d < 0 THEN d - Px(BOOST) ELSE d

\* C8 (as claimed): Bird.move sets y to y + D, D being v*t + 0.5*3.0*t^2
\* clamped into [-16, 16] and then reduced by 2 if that is negative.
C8_MoveFormula ==
  pc = "bird" /\ last_call.op = "move" =>
    /\ birds[1].tick_count = last_call.pre.tick_count + 1
    /\ birds[1].y = last_call.pre.y
                    + ClaimedDisplacement(last_call.pre.vel,
                                          birds[1].tick_count)

\* C9: Bird.jump sets vel to -10.5, tick_count to 0 and height to the
\* current y, and leaves x, y and tilt unchanged.
C9_JumpEffect ==
  pc = "bird" /\ last_call.op = "jump" =>
    /\ birds[1].vel = JUMP_VELOCITY_X2
    /\ birds[1].tick_count = 0
    /\ birds[1].height = last_call.pre.y
    /\ birds[1].x = last_call.pre.x
    /\ birds[1].y = last_call.pre.y
    /\ birds[1].tilt = last_call.pre.tilt

\* C9 witness: a jump of a bird that had moved away from its reference
\* height, with a tick count and a tilt that were not the initial ones.
C9_Witness ==
  /\ pc = "bird" /\ last_call.op = "jump"
  /\ last_call.pre.tick_count > 1
  /\ last_call.pre.height # last_call.pre.y
  /\ last_call.pre.tilt < 0

\* Ticks a bird that never jumps needs from b until its lower edge is at the
\* floor
RECURSIVE FallTicks(_, _)
FallTicks(b, t) ==
  IF b.y + Px(BirdImgH) >= Px(FLOOR_Y) \/ t >= MaxTicks THEN t
  ELSE FallTicks(Move(b), t + 1)

NeverJumpTicks == FallTicks(NewBird(1, BIRD_X, Px(BIRD_Y)), 0)

\* C10: a generation of one bird whose controller never jumps ends: for
\* every choice of gap heights the bird is removed by the boundary check of
\* the same tick, the tick in which free fall from the spawn height reaches
\* the floor, no tick runs after it, every tick counts, and the loop is left
\* as soon as no bird remains.
C10_NeverJumpEnds ==
  /\ [](batch = <<"never">> =>
          /\ ticks <= NeverJumpTicks
          /\ NeverJumpTicks < MaxTicks
          /\ (ticks = NeverJumpTicks /\ pc \in {"loop", "track", "run"}
                => birds = <<>>)
          /\ (birds = <<>> =>
                /\ ticks = NeverJumpTicks
                /\ Len(removals) = 1
                /\ removals[1].cause = "bound"
                /\ removals[1].tick = NeverJumpTicks))
  /\ [][batch = <<"never">> =>
          /\ (pc = "bounds" /\ pc' = "loop" => ticks' = ticks + 1)
          /\ (pc = "loop" /\ birds = <<>> =>
                pc' \in {"track", "interrupted"})]_vars

\* C10 witness: the lone never-jumping bird is gone and the loop was left
\* without a quit.
C10_Witness ==
  /\ batch = <<"never">> /\ pc = "track" /\ run
  /\ birds = <<>> /\ ticks = NeverJumpTicks
  /\ removals[1].cause = "bound"

\* C11 as claimed: the lone never-jumping bird removed at the floor after T
\* ticks leaves its genome with fitness 0.1 * T - 1.
C11_FloorPenaltyOnce ==
  batch = <<"never">> /\ birds = <<>> /\ removals[1].cause = "bound"
    => fitness[1] = SURVIVE_X10 * removals[1].tick - Pts(PENALTY)

\* C11: the lone never-jumping bird is removed at the floor by the boundary
\* check after T ticks, and from then on its genome's fitness is 0.1 * T: one
\* survival reward for each tick and no elimination penalty, which only a
\* pipe collision charges.
C11_FloorFitness ==
  batch = <<"never">> /\ birds = <<>>
    => /\ Len(removals) = 1
       /\ removals[1].cause = "bound"
       /\ removals[1].tick = NeverJumpTicks
       /\ fitness[1] = SURVIVE_X10 * NeverJumpTicks
       /\ fitness[1] > 0

\* C11 witness: the generation of the lone never-jumping bird has returned
\* without a quit, the bird having met the floor.
C11_Witness ==
  /\ batch = <<"never">> /\ pc = "run" /\ gens_done = 1 /\ run
  /\ birds = <<>> /\ removals[1].cause = "bound"
  /\ fitness[1] = SURVIVE_X10 * ticks

\* C12: in a generation of two genomes, the first jumping on every tick and
\* the second never jumping, once _eval_genomes has returned without a quit
\* the first genome's fitness is strictly greater than the second's,
\* whatever gap heights were drawn.
C12_JumperBeatsFaller ==
  batch = <<"always", "never">> /\ run /\ birds = <<>>
    /\ pc \in {"track", "run", "returned"}
    => fitness[1] > fitness[2]

\* C12 witness: that generation has returned without a quit, both birds
\* having left through a boundary, the never-jumping one first.
C12_Witness ==
  /\ batch = <<"always", "never">> /\ run /\ pc = "run" /\ gens_done = 1
  /\ Len(removals) = 2
  /\ removals[1].bird = 2 /\ removals[1].cause = "bound"
  /\ removals[2].bird = 1 /\ removals[2].cause = "bound"
  /\ removals[1].tick < removals[2].tick
  /\ fitness[1] > fitness[2]

\* C13: every pipe of a generation, the initial one and every spawned one,
\* has a gap-start height h with 50 <= h <= 450, and keeps that height for as
\* long as it is in the list (no step changes the height of a pipe).
C13_GapStartInRange ==
  /\ [](\A i \in 1..Len(pipes) :
          MIN_HEIGHT <= pipes[i].height /\ pipes[i].height <= MAX_HEIGHT)
  /\ [][\A i \in 1..Len(pipes) : \A j \in 1..Len(pipes') :
          pipes[i].id = pipes'[j].id
            => pipes'[j].height = pipes[i].height]_vars

\* C13 witness: the initial pipe and a spawned pipe are in the list together,
\* one with the least and one with the greatest height that can be drawn.
C13_Witness ==
  /\ Len(pipes) = 2 /\ pipes_created = 2 /\ ticks > 0
  /\ pipes[1].height = MIN_HEIGHT
  /\ pipes[2].height = MAX_HEIGHT - 1

\* The rows [lo, hi) of the top image, of the gap and of the bottom image of
\* a pipe
TopRows(p) == [lo |-> p.top, hi |-> p.top + PipeImgH]
GapRows(p) == [lo |-> p.height, hi |-> p.height + GAP]
BottomRows(p) == [lo |-> p.bottom, hi |-> p.bottom + PipeImgH]
Disjoint(a, b) == a.hi <= b.lo \/ b.hi <= a.lo

\* C14: for every pipe with gap start h and image height P, top = h - P and
\* bottom = h + 200 (gap start 300 gives top = 300 - P and bottom = 500); the
\* top image occupies the rows [top, h), the bottom image starts at row
\* h + 200, and the 200 rows [h, h + 200) of the gap meet neither image.
C14_PipeGeometry ==
  /\ 300 \in RandRange(MIN_HEIGHT, MAX_HEIGHT)
  /\ NewPipe(0, PIPE_START_X, 300).top = 300 - PipeImgH
  /\ NewPipe(0, PIPE_START_X, 300).bottom = 500
  /\ \A i \in 1..Len(pipes) :
       LET p == pipes[i]
       IN /\ p.top = p.height - PipeImgH
          /\ p.bottom = p.height + 200
          /\ TopRows(p) = [lo |-> p.top, hi |-> p.height]
          /\ BottomRows(p).lo = p.height + 200
          /\ GapRows(p).hi - GapRows(p).lo = 200
          /\ Disjoint(GapRows(p), TopRows(p))
          /\ Disjoint(GapRows(p), BottomRows(p))

\* C14 witness: a spawned pipe with the greatest gap start is in the list
\* behind the initial pipe and has moved.
C14_Witness ==
  /\ Len(pipes) = 2
  /\ pipes[2].height = MAX_HEIGHT - 1
  /\ pipes[2].x < WIN_WIDTH
  /\ pipes[2].top = MAX_HEIGHT - 1 - PipeImgH
  /\ pipes[2].bottom = MAX_HEIGHT - 1 + GAP

\* C15: when handle_events() returns False at the start of a tick, the loop
\* is left in that tick: no bird and no pipe moves, no fitness and no score
\* changes, no agent is removed and no pipe is spawned.  Each tick polls once,
\* before any of its steps: at the head of the loop there has been one poll
\* for each completed tick, inside a tick one more, and never more than that.
C15_QuitEndsTick ==
  /\ [][run /\ ~run'
          => /\ pc = "loop" /\ pc' = "track"
             /\ polls' = polls + 1
             /\ UNCHANGED <<birds, networks, genome_list, pipes, fitness,
                            score, removals, pipes_created, ticks,
                            pipe_index, best_fitness, best_genome>>]_vars
  /\ [][pc = "track" /\ ~run => pc' \notin {"loop", "pipes", "bounds"}]_vars
  /\ [](/\ polls <= ticks + 1
        /\ (pc = "loop" => polls = ticks)
        /\ (pc \in {"pipes", "bounds"} => polls = ticks + 1)
        /\ (pc = "track" /\ ~run => polls = ticks + 1))

\* C15 witness: a quit was polled in a tick after the first pipe was passed,
\* with a bird in flight, and the loop has been left.
C15_Witness ==
  /\ pc = "track" /\ ~run
  /\ ticks > 0 /\ polls = ticks + 1
  /\ Len(birds) > 0 /\ score > 0 /\ Len(pipes) = 2

\* C16 as claimed: after a generation ended by the stop signal, best_fitness
\* and best_genome are what they were before the generation started.
C16_QuitKeepsBest ==
  pc = "run" /\ gens_done > 0 /\ ~run
    => best_fitness = before.fitness /\ best_genome = before.genome

\* The greatest fitness among the genomes of gs, and the first genome of gs
\* that has it
MaxFitness(gs) ==
  CHOOSE f \in {fitness[gs[i]] : i \in 1..Len(gs)} :
    \A i \in 1..Len(gs) : fitness[gs[i]] <= f
FirstWith(gs, f) ==
  gs[CHOOSE i \in 1..Len(gs) :
       /\ fitness[gs[i]] = f
       /\ \A j \in 1..(i - 1) : fitness[gs[j]] # f]

\* C16: after a generation ended by the stop signal, the agents in flight at
\* the quit have been considered: if the greatest fitness among their genomes
\* is strictly greater than best_fitness was before the generation, it is the
\* new best_fitness and the first in-flight genome that has it is the new
\* best_genome; otherwise best_fitness and best_genome are what they were
\* before the generation started.
C16_QuitTracksLive ==
  pc \in {"run", "returned"} /\ gens_done > 0 /\ ~run
    => /\ Len(genome_list) > 0
       /\ IF Greater(MaxFitness(genome_list), before.fitness)
          THEN /\ best_fitness = Finite(MaxFitness(genome_list))
               /\ best_genome =
                    [gen |-> generation,
                     id |-> FirstWith(genome_list, MaxFitness(genome_list))]
          ELSE /\ best_fitness = before.fitness
               /\ best_genome = before.genome

\* C16 witness: a second generation was ended by the stop signal with a
\* genome in flight whose fitness exceeded the best recorded before it.
C16_Witness ==
  /\ pc = "run" /\ gens_done = 2 /\ ~run
  /\ ~before.fitness.neg_inf
  /\ best_fitness.val > before.fitness.val
  /\ best_genome.gen = 2

\* C17: a failed write never leaves _save_genome as an exception: train()
\* never fails because of it, and when the winner could not be saved train()
\* has still returned the winner, the genome it tried to save.  load_genome
\* called for a file that does not exist raises FileNotFoundError and returns
\* nothing, and it raises FileNotFoundError for no other file.
C17_SaveSwallowsLoadRaises ==
  /\ [](/\ pc # "failed" /\ outcome.kind # "Exception"
        /\ (pc = "returned"
              => /\ save_calls[1].name = "winner"
                 /\ outcome.kind = "returned"
                 /\ outcome.genome = save_calls[1].genome
                 /\ outcome.genome = [gen |-> pop_best.gen,
                                      id |-> pop_best.id]
                 /\ outcome.genome # NoGenome))
  /\ [][Len(save_calls') > Len(save_calls)
          /\ ~save_calls'[Len(save_calls')].ok
          => pc' \in {"returned", "interrupted"}]_vars
  /\ [][loaded' # loaded
          => /\ (saved[loaded'.filename] = NoFile
                   => /\ loaded'.raised = "FileNotFoundError"
                      /\ loaded'.value = Nothing)
             /\ (loaded'.raised = "FileNotFoundError"
                   => saved[loaded'.filename] = NoFile)]_vars

\* C17 witness: saving the winner failed before the file was created,
\* train() returned the winner, and load_genome was then called for the
\* file that was not written.
C17_Witness ==
  /\ pc = "returned" /\ Len(save_calls) = 1 /\ ~save_calls[1].ok
  /\ outcome.kind = "returned" /\ outcome.genome # NoGenome
  /\ loaded.filename = CheckpointFile("winner")
  /\ loaded.raised = "FileNotFoundError" /\ loaded.value = Nothing

\* The _save_genome calls made under a name, and the last of them
SavesUnder(n) == {k \in 1..Len(save_calls) : save_calls[k].name = n}
LatestSave(n) ==
  save_calls[CHOOSE k \in SavesUnder(n) : \A o \in SavesUnder(n) : o <= k]

\* Two controllers give the same output for the same sensory input
SameActions(p, q) ==
  \A y \in {0, Px(BIRD_Y), Px(401)}, dtop \in {0, 10}, dbot \in {0, 10} :
    Activate(p, y, dtop, dbot) = Activate(q, y, dtop, dbot)

C19_MissingFileExits ==
  /\ (files # RequiredFiles /\ main_pc # "start"
        => /\ config = "FileNotFoundError"
           /\ main_pc = "exit" /\ exit_code = 1
           /\ engine = "none" /\ pc = "none"
           /\ generation = 0 /\ gens_done = 0 /\ ticks = 0)
  /\ (main_pc = "start"
        => config = "none" /\ engine = "none" /\ pc = "none"
           /\ exit_code = NoExit)

\* C19 witness: main() has returned 1 with every image in place and only the
\* NEAT configuration file missing.
C19_Witness ==
  /\ files = RequiredImages
  /\ main_pc = "exit" /\ exit_code = 1
  /\ config = "FileNotFoundError"

\* C20: after Config() has been constructed successfully the assets, config,
\* checkpoints and logs directories all exist, whether or not they existed
\* before; the call creates the missing ones before it validates, so they
\* exist after a Config() that raised as well.
C20_DirectoriesExist ==
  /\ [](config = "ok" => Dirs \subseteq dirs)
  /\ [](main_pc # "start" => Dirs \subseteq dirs)
  /\ [][main_pc = "start" /\ main_pc' # "start"
          => dirs' = dirs \cup Dirs /\ dirs_made' = Dirs \ dirs]_vars

\* C20 witness: Config() was constructed successfully after creating the
\* checkpoints and logs directories, which did not exist before.
C20_Witness ==
  /\ config = "ok"
  /\ dirs_made = {"checkpoints", "logs"}
  /\ dirs = Dirs

\* C21: at the end of every tick every bird still in the list has -50 <= y
\* and y + image height < FLOOR_Y: a bird whose lower edge is at or below the
\* floor, or whose y is less than -50, is not in the list when the next tick
\* starts.
C21_LiveBirdsInBounds ==
  pc \in {"loop", "track"} =>
    \A j \in 1..Len(birds) :
      /\ Px(0 - 50) <= birds[j].y
      /\ birds[j].y + Px(BirdImgH) < Px(730)

\* C21 witness: a tick has ended in which the boundary check removed the
\* first of two birds and kept the second.
C21_Witness ==
  /\ pc = "loop" /\ ticks > 0 /\ Len(birds) = 1 /\ Len(batch) = 2
  /\ removals[Len(removals)].cause = "bound"
  /\ removals[Len(removals)].tick = ticks
  /\ removals[Len(removals)].index = 0

\* The birds of bs that collide with a pipe of ps once that pipe has moved
Colliders(bs, ps) ==
  {bs[j].gid : j \in {k \in 1..Len(bs) :
                        \E p \in 1..Len(ps) : Collide(MovePipe(ps[p]), bs[k])}}

\* The genomes whose triples the removals logged from position n + 1 on took
\* away by a pipe collision
PipeRemoved(rs, n) ==
  {rs[k].bird : k \in {m \in (n + 1)..Len(rs) : rs[m].cause = "pipe"}}

\* C22 (as claimed): in the pipe step of a tick every bird that collides with
\* a pipe has the penalty -1 applied to the genome created with it and its
\* triple removed, also when several birds collide in that tick, and no other
\* genome is charged; a genome is charged at most once in a generation, and
\* the fitness of a genome whose triple is removed does not change again.
C22_PenaltyToCollider ==
  /\ [][pc = "pipes" /\ pc' = "bounds"
          => \A g \in DOMAIN batch :
               IF g \in Colliders(birds, pipes)
               THEN /\ fitness'[g] = fitness[g] - Pts(PENALTY)
                    /\ g \in PipeRemoved(removals', Len(removals))
                    /\ g \notin Range(genome_list')
               ELSE /\ fitness'[g] >= fitness[g]
                    /\ g \notin PipeRemoved(removals', Len(removals))]_vars
  /\ [](\A g \in DOMAIN batch :
          Cardinality({k \in 1..Len(removals) :
                         removals[k].bird = g /\ removals[k].cause = "pipe"})
            <= 1)
  /\ [][pc # "run"
          => \A g \in DOMAIN batch :
               g \notin Range(genome_list) => fitness'[g] = fitness[g]]_vars

\* C22 without its first part: the penalty goes only to genomes of birds that
\* collide, a charged genome is the one whose triple is removed, at most once,
\* and is not changed afterwards.
C22_Attribution ==
  /\ [][pc = "pipes" /\ pc' = "bounds"
          => \A g \in DOMAIN batch :
               IF g \in PipeRemoved(removals', Len(removals))
               THEN /\ g \in Colliders(birds, pipes)
                    /\ fitness'[g] = fitness[g] - Pts(PENALTY)
                    /\ g \notin Range(genome_list')
               ELSE fitness'[g] >= fitness[g]]_vars
  /\ [](\A g \in DOMAIN batch :
          Cardinality({k \in 1..Len(removals) :
                         removals[k].bird = g /\ removals[k].cause = "pipe"})
            <= 1)
  /\ [][pc # "run"
          => \A g \in DOMAIN batch :
               g \notin Range(genome_list) => fitness'[g] = fitness[g]]_vars

\* C23: in every tick the pipe used for the sensory input is the second pipe
\* exactly when the lead bird's x is greater than the first pipe's x plus the
\* pipe width, and the first pipe otherwise; whenever the first pipe's right
\* edge is behind the lead bird a second pipe exists and is the target, so
\* the targeted pipe's right edge is never behind the bird.
C23_TargetPipe ==
  [][pc = "loop" /\ pc' = "pipes"
       => /\ pipe_index' \in {0, 1}
          /\ (pipe_index' = 1 <=> birds[1].x > pipes[1].x + PipeImgW)
          /\ (pipes[1].x + PipeImgW < birds[1].x
                => Len(pipes) >= 2 /\ pipe_index' = 1)
          /\ pipes[pipe_index' + 1].x + PipeImgW > birds[1].x
          /\ \A j \in 1..Len(birds) :
               birds'[j] = Decide(birds[j], networks[j].policy,
                                  pipes[pipe_index' + 1])]_vars

\* C23 witness: the birds have sensed the second pipe in a tick in which the
\* first pipe's right edge was behind the lead bird.
C23_Witness ==
  /\ pc = "pipes" /\ pipe_index = 1 /\ Len(pipes) = 2
  /\ pipes[1].x + PipeImgW < birds[1].x
  /\ pipes[2].x > birds[1].x

\* C24: at the start of every tick that runs past the quit poll the pipes
\* list is non-empty, and the pipe_index chosen in the tick is a valid index
\* of the list the birds sense, also after a pipe has been recycled.
C24_PipeIndexValid ==
  /\ (pc = "loop" /\ run /\ Len(birds) > 0 => Len(pipes) >= 1)
  /\ (pc = "pipes"
        => /\ Len(pipes) >= 1
           /\ 0 <= pipe_index /\ pipe_index <= Len(pipes) - 1)

\* C24 witness: the first pipe has been recycled, and the birds have sensed
\* the only pipe left, at index 0.
C24_Witness ==
  /\ pc = "pipes" /\ pipes_created = 2 /\ Len(pipes) = 1
  /\ pipes[1].id = 2 /\ pipe_index = 0

\* The pipes of ps that are not passed in ps and are passed in qs
NewlyPassed(ps, qs) ==
  {ps[j].id : j \in {k \in 1..Len(ps) :
                       /\ ~ps[k].passed
                       /\ \E m \in 1..Len(qs) :
                            qs[m].id = ps[k].id /\ qs[m].passed}}

\* C25: at most one pipe becomes passed in a tick, and a new pipe is created
\* exactly in the ticks in which one does: exactly one, appended at the end of
\* the list at x = WIN_WIDTH (600).  At the end of every tick the number of
\* pipes created in the generation is score + 1, and score is the number of
\* pipes marked passed, those still listed and those recycled.
C25_OnePipePerPass ==
  /\ [][pc = "pipes" /\ pc' = "bounds"
          => /\ Cardinality(NewlyPassed(pipes, pipes')) <= 1
             /\ IF NewlyPassed(pipes, pipes') # {}
                THEN /\ score' = score + 1
                     /\ pipes_created' = pipes_created + 1
                     /\ pipes'[Len(pipes')].id = pipes_created'
                     /\ pipes'[Len(pipes')].x = 600
                     /\ ~pipes'[Len(pipes')].passed
                     /\ \A j \in 1..(Len(pipes') - 1) :
                          pipes'[j].id < pipes_created'
                ELSE /\ score' = score
                     /\ pipes_created' = pipes_created
                     /\ \A j \in 1..Len(pipes') :
                          \E k \in 1..Len(pipes) : pipes[k].id = pipes'[j].id]_vars
  /\ [](pc \in {"loop", "bounds", "track"}
          => /\ pipes_created = score + 1
             /\ score = Cardinality({j \in 1..Len(pipes) : pipes[j].passed})
                          + (pipes_created - Len(pipes)))

\* C25 witness: the tick of the second pass event has ended: three pipes
\* were created, the first of them is recycled, the second is passed and the
\* third has just been appended.
C25_Witness ==
  /\ pc = "loop" /\ score = 2 /\ pipes_created = 3
  /\ Len(pipes) = 2
  /\ pipes[1].id = 2 /\ pipes[1].passed
  /\ pipes[2].id = 3 /\ ~pipes[2].passed /\ pipes[2].x = WIN_WIDTH

\* C26: at the end of every tick each genome still live has fitness
\* 0.1 * k + 5 * p, k being the ticks run so far in the generation and p the
\* pass events so far; a genome removed by a pipe collision in tick k has
\* 0.1 * k + 5 * p' - 1, p' being the pass events of the ticks before k, and
\* keeps that value for the rest of the generation.
C26_FitnessAccounting ==
  /\ [](pc \in {"loop", "track"}
          => \A j \in 1..Len(genome_list) :
               fitness[genome_list[j]] = 1 * ticks + 50 * score)
  /\ [][pc = "pipes" /\ pc' = "bounds"
          => \A g \in PipeRemoved(removals', Len(removals)) :
               fitness'[g] = 1 * (ticks + 1) + 50 * score - 10]_vars
  /\ [][pc # "run"
          => \A g \in DOMAIN batch :
               g \notin Range(genome_list') /\ g \notin Range(genome_list)
                 => fitness'[g] = fitness[g]]_vars

\* The tick in which the first pipe, created at PIPE_START_X and moved by VEL
\* in every tick, is first to the left of the birds' x
FirstPassTick == (PIPE_START_X - BIRD_X) \div VEL + 1

\* C26 witness: two genomes with different networks have both been removed
\* by a pipe.  The first collided in the tick of the first pass event and
\* has that tick's survival rewards less the penalty, without the bonus; the
\* second collided in a later tick and has its rewards, the one bonus and
\* the penalty.
C26_Witness ==
  /\ Len(batch) = 2 /\ Len(genome_list) = 0 /\ score = 1
  /\ batch[1] # batch[2]
  /\ Len(removals) = 2
  /\ removals[1].tick = FirstPassTick
  /\ removals[1].cause = "pipe" /\ removals[2].cause = "pipe"
  /\ removals[1].tick < removals[2].tick
  /\ fitness[removals[1].bird] = 1 * removals[1].tick + 50 * 0 - 10
  /\ fitness[removals[2].bird] = 1 * removals[2].tick + 50 * 1 - 10

\* The gap-start heights a newly constructed pipe can have
NewPipeHeights ==
  {NewPipe(1, PIPE_START_X, h).height : h \in RandRange(MIN_HEIGHT, MAX_HEIGHT)}

\* C27: the gap-start values a newly created pipe can take are exactly the
\* integers of the closed range [MIN_HEIGHT, MAX_HEIGHT] = [50, 450], both
\* ends included.
C27_ClosedRange ==
  /\ NewPipeHeights = MIN_HEIGHT..MAX_HEIGHT
  /\ calls = 0 => pipes[1].height \in MIN_HEIGHT..MAX_HEIGHT

\* C27, as the code has it: the values are the integers from MIN_HEIGHT to
\* MAX_HEIGHT - 1, so that MAX_HEIGHT itself is never the height of a pipe.
C27_HalfOpenRange ==
  /\ NewPipeHeights = MIN_HEIGHT..(MAX_HEIGHT - 1)
  /\ pipes[1].height \in MIN_HEIGHT..(MAX_HEIGHT - 1)

\* A new pipe with the greatest height that is drawn
C27_Witness ==
  /\ calls = 0 /\ pipes[1].height = MAX_HEIGHT - 1 /\ ~pipes[1].passed

\* The output of bird j's network for the bird record m and the pipe target
OutputFor(j, m, target) ==
  Activate(networks[j].policy, m.y, Abs(m.y - Px(target.height)),
           Abs(m.y - Px(target.bottom)))

\* C28: in the bird step of a tick every live bird is moved first, its genome
\* then gains 0.1, the sensory vector (y, |y - target.height|,
\* |y - target.bottom|) is taken from the position after the move, and the
\* bird jumps iff the output is strictly above 0.5 (an output of exactly 0.5
\* does not jump).  A jump decided in this tick leaves this tick's y as the
\* move made it and acts on y from the next tick on.
C28_MoveRewardSenseJump ==
  [][pc = "loop" /\ pc' = "pipes"
       => \A j \in 1..Len(birds) :
            LET m == Move(birds[j])
                output == OutputFor(j, m, pipes[pipe_index' + 1])
            IN /\ Len(birds') = Len(birds)
               /\ birds'[j].y = m.y
               /\ fitness'[genome_list[j]] = fitness[genome_list[j]] + 1
               /\ output > 5 => birds'[j] = Jump(m)
               /\ output <= 5 => birds'[j] = m
               /\ (birds[j].tick_count = 0 /\ birds[j].vel = JUMP_VELOCITY_X2)
                    => birds'[j].y < birds[j].y]_vars

\* C28 witness: after the bird step of a tick, of two birds that were at the
\* same height one has jumped and the other, whose network put out exactly
\* 0.5, has not; both are where the move of this tick put them.
C28_Witness ==
  /\ pc = "pipes" /\ Len(birds) = 2 /\ ticks > 0
  /\ birds[1].y = birds[2].y
  /\ OutputFor(1, birds[1], pipes[pipe_index + 1]) > 5
  /\ birds[1].tick_count = 0 /\ birds[1].vel = JUMP_VELOCITY_X2
  /\ birds[1].height = birds[1].y
  /\ OutputFor(2, birds[2], pipes[pipe_index + 1]) = 5
  /\ birds[2].tick_count > 0

\* The ids of the pipes in a list
PipeIds(ps) == {ps[i].id : i \in 1..Len(ps)}

\* C29: a pipe is removed from the list in the first tick in which
\* x + pipe_width < 0 and not earlier; at the end of every tick no pipe of the
\* list has x + pipe_width < 0; and every removed pipe had been marked passed.
C29_RemovedWhenOffScreen ==
  /\ [](\A i \in 1..Len(pipes) : pipes[i].x + PipeImgW >= 0)
  /\ [][pc = "pipes" /\ pc' = "bounds"
          => \A i \in 1..Len(pipes) :
               /\ pipes[i].id \notin PipeIds(pipes')
                    <=> pipes[i].x - VEL + PipeImgW < 0
               /\ pipes[i].id \notin PipeIds(pipes') => pipes[i].passed]_vars
  /\ [][(pc = "loop" \/ pc = "bounds")
          => PipeIds(pipes') = PipeIds(pipes)]_vars

\* C29 witness: the bird step and the pipe step of the tick in which the first
\* pipe, moved by VEL in every tick from PIPE_START_X, is first wholly to the
\* left of the window have been made, and the list holds only the second pipe.
C29_Witness ==
  /\ pc = "bounds" /\ Len(pipes) = 1 /\ pipes[1].id = 2 /\ score = 1
  /\ LET x == PIPE_START_X - VEL * (ticks + 1)
     IN x + PipeImgW < 0 /\ x + VEL + PipeImgW >= 0

\* C30: Pipe.move changes only x, by exactly -5, and mark_passed changes only
\* the passed flag; height, top and bottom keep the values given at creation
\* for the whole life of the pipe, and passed, once true, is never false
\* again.
C30_PipeFrame ==
  /\ [](/\ pipes[1].top = pipes[1].height - PipeImgH
        /\ pipes[1].bottom = pipes[1].height + GAP)
  /\ [][/\ pipes'[1].id = pipes[1].id
        /\ pipes'[1].height = pipes[1].height
        /\ pipes'[1].top = pipes[1].top
        /\ pipes'[1].bottom = pipes[1].bottom
        /\ pipes[1].passed => pipes'[1].passed
        /\ last_call'.op = "move"
             => /\ pipes'[1].x = pipes[1].x - 5
                /\ pipes'[1].passed = pipes[1].passed
        /\ last_call'.op = "mark_passed"
             => /\ pipes'[1].x = pipes[1].x
                /\ pipes'[1].passed]_vars

\* C30 in the tick loop: a pipe of the list keeps its height, top and bottom,
\* never goes back to not passed, and has its x changed in the pipe step only,
\* by -5.
C30_TickLoopFrame ==
  [][\A i \in 1..Len(pipes) : \A j \in 1..Len(pipes') :
       pipes[i].id = pipes'[j].id /\ pc # "run"
         => /\ pipes'[j].height = pipes[i].height
            /\ pipes'[j].top = pipes[i].top
            /\ pipes'[j].bottom = pipes[i].bottom
            /\ pipes[i].passed => pipes'[j].passed
            /\ pipes'[j].x = IF pc = "pipes" /\ pc' = "bounds"
                             THEN pipes[i].x - 5 ELSE pipes[i].x]_vars

\* C30 witness: a pipe that was marked passed and then moved is still passed,
\* 5 to the left of where it was, with the extents of its creation.
C30_Witness ==
  /\ pc = "pipe" /\ last_call.op = "move"
  /\ last_call.pre.passed /\ pipes[1].passed
  /\ pipes[1].x = last_call.pre.x - 5
  /\ pipes[1].x < WIN_WIDTH - 5
  /\ pipes[1].height = MAX_HEIGHT - 1
  /\ pipes[1].top = MAX_HEIGHT - 1 - PipeImgH
  /\ pipes[1].bottom = MAX_HEIGHT - 1 + GAP

\* C31: at the start of every generation, for a batch of n genomes, n birds,
\* n networks and n genome entries are created in batch order, every bird is
\* at (230, 350) with velocity 0 and tick count 0, every genome's fitness is
\* 0 whatever the fitness values of the generation before were, there is
\* exactly one pipe, at x = 700 and not passed, and the score is 0.
C31_GenerationInit ==
  [][pc = "run" /\ pc' = "loop"
       => LET n == Len(batch')
          IN /\ Len(birds') = n /\ Len(networks') = n /\ Len(genome_list') = n
             /\ DOMAIN fitness' = 1..n
             /\ \A g \in 1..n :
                  /\ genome_list'[g] = g
                  /\ networks'[g].gid = g /\ networks'[g].policy = batch'[g]
                  /\ birds'[g].gid = g
                  /\ birds'[g].x = 230 /\ birds'[g].y = Px(350)
                  /\ birds'[g].vel = 0 /\ birds'[g].tick_count = 0
                  /\ fitness'[g] = 0
             /\ Len(pipes') = 1
             /\ pipes'[1].x = 700 /\ ~pipes'[1].passed
             /\ score' = 0]_vars

\* C31 witness: the second generation has just been set up with two genomes,
\* after a first generation whose genomes had earned fitness that the tracker
\* recorded.
C31_Witness ==
  /\ pc = "loop" /\ generation = 2 /\ gens_done = 1
  /\ ticks = 0 /\ polls = 0
  /\ ~best_fitness.neg_inf /\ best_fitness.val > 0
  /\ Len(batch) = 2 /\ Len(birds) = 2
  /\ fitness = <<0, 0>>
  /\ score = 0 /\ Len(pipes) = 1

\* best_fitness is not below bf
NotBelow(f, bf) == bf.neg_inf \/ (~f.neg_inf /\ f.val >= bf.val)

\* C32: over any sequence of _eval_genomes calls the generation counter goes
\* up by exactly 1 in every call, also in one that a quit ends, and in no
\* other step; best_fitness never decreases; and best_genome and best_fitness
\* change only in the step that follows the end of a generation's tick loop,
\* never during a tick.
C32_CounterAndBest ==
  /\ [](pc = "run" => generation = gens_done)
  /\ [][/\ generation' = IF pc = "run" /\ pc' = "loop"
                         THEN generation + 1 ELSE generation
        /\ NotBelow(best_fitness', best_fitness)
        /\ (best_fitness' # best_fitness \/ best_genome' # best_genome)
             => /\ pc = "track" /\ pc' = "run"
                /\ ~run \/ Len(birds) = 0]_vars

\* C32 witness: two calls have returned, each ended by a quit.  The first set
\* the best genome and the second, whose live genome had earned less, left it
\* as it was.
C32_Witness ==
  /\ pc = "run" /\ generation = 2 /\ gens_done = 2 /\ ~run
  /\ best_genome # NoGenome /\ best_genome.gen = 1
  /\ best_fitness = before.fitness
  /\ Len(genome_list) > 0
  /\ fitness[genome_list[1]] > 0
  /\ fitness[genome_list[1]] < best_fitness.val

\* C33: an exception other than KeyboardInterrupt raised during evaluation
\* leaves train() as that exception, with no genome saved and nothing of the
\* failed tick or generation run again, and main() then returns 1; main()
\* returns 130 for KeyboardInterrupt, and 0 only when training completed.
C33_FailureIsFatal ==
  /\ [][pc # "failed" /\ pc' = "failed"
          => /\ outcome'.kind = "Exception"
             /\ saved' = saved /\ save_calls' = save_calls]_vars
  /\ [][pc = "failed"
          => /\ pc' = "failed"
             /\ outcome' = outcome
             /\ generation' = generation /\ gens_done' = gens_done
             /\ ticks' = ticks /\ polls' = polls
             /\ birds' = birds /\ pipes' = pipes /\ fitness' = fitness
             /\ saved' = saved /\ save_calls' = save_calls]_vars
  /\ [](main_pc = "exit" /\ pc = "failed" => exit_code = 1)
  /\ [](main_pc = "exit" /\ pc = "interrupted" => exit_code = 130)
  /\ [](exit_code = 0
          => /\ main_pc = "exit" /\ pc = "returned"
             /\ outcome.kind = "returned"
             /\ gens_done = max_generations)

\* C33 witness: main() has returned 1 after an exception in train() that came
\* when a generation had been evaluated and a best genome was known; nothing
\* was saved.
C33_Witness ==
  /\ main_pc = "exit" /\ exit_code = 1 /\ config = "ok"
  /\ pc = "failed" /\ outcome.kind = "Exception"
  /\ gens_done = 1 /\ ticks > 0
  /\ best_genome # NoGenome
  /\ save_calls = <<>>
  /\ \A f \in FileNames : saved[f] = NoFile

\* C34: a quit polled in one generation ends only that generation's tick
\* loop.  The call returns normally to population.run, nothing in the trainer
\* keeps the stop, and the next call adds 1 to the generation counter and
\* starts a tick loop from the initial state, as after a generation in which
\* every bird died.
C34_QuitNotLatched ==
  /\ [][pc = "loop" /\ run /\ ~run'
          => pc' = "track" /\ outcome' = outcome]_vars
  /\ [][pc = "track" /\ pc' = "run"
          => /\ outcome' = outcome /\ run' = run
             /\ gens_done' = gens_done + 1]_vars
  /\ [](pc = "run" /\ gens_done < max_generations
          => ENABLED EvalInit(NarrowBatches, NarrowHeights))
  /\ [][pc = "run" /\ pc' = "loop"
          => /\ generation' = generation + 1
             /\ run' /\ Len(birds') > 0
             /\ ticks' = 0 /\ polls' = 0 /\ score' = 0
             /\ pipe_index' = 0 /\ removals' = <<>>
             /\ pipes_created' = 1]_vars
  /\ [](pc = "loop" /\ run /\ Len(birds) > 0 /\ ticks < MaxTicks
          => ENABLED TickBirds)

\* C34 witness: the second generation is in its second tick, after a first
\* generation that a quit ended while a genome was live (the tracker took
\* that genome, which it does only for a genome left in the list).
C34_Witness ==
  /\ pc = "pipes" /\ generation = 2 /\ gens_done = 1
  /\ run /\ ticks = 1 /\ polls = 2
  /\ best_genome # NoGenome /\ best_genome.gen = 1
  /\ before.genome = best_genome
  /\ Len(birds) = Len(batch)

\* C35: for a pipe image narrower than 150 pixels, at the end of every tick
\* the pipes list holds one or two pipes in strictly increasing order of x
\* (index 0 the leftmost), and at most one of them, always the last, is not
\* yet passed.
C35_OneOrTwoPipes ==
  (pipe_img_w < 150 /\ pc \in {"loop", "pipes", "track"})
    => /\ Len(pipes) \in {1, 2}
       /\ \A i \in 1..(Len(pipes) - 1) :
            /\ pipes[i].x < pipes[i + 1].x
            /\ pipes[i].passed
       /\ Cardinality({i \in 1..Len(pipes) : ~pipes[i].passed}) <= 1

\* C35 witness: with the widest image below 150 the third pipe has been
\* created in the very tick that took the first off the list; the list holds
\* the second pipe, passed, and the third, not passed.
C35_Witness ==
  /\ pipe_img_w = 149 /\ pc = "loop" /\ score = 2 /\ pipes_created = 3
  /\ Len(pipes) = 2
  /\ pipes[1].id = 2 /\ pipes[1].passed
  /\ pipes[2].id = 3 /\ ~pipes[2].passed /\ pipes[2].x = WIN_WIDTH
  /\ pipes[1].x + (PIPE_START_X - WIN_WIDTH) - VEL * FirstPassTick
       + pipe_img_w < 0

====
